---- MODULE Spec2Model ----
(***************************************************************************)
(* ConnectionTCPBase (gloox, src/connectiontcpbase.cpp): one TCP           *)
(* connection object used by several threads.  Every thread is at a        *)
(* position (pc) inside one of the public member functions; each step is   *)
(* one access to the shared object (a mutex operation, a read or a write   *)
(* of a member, a system call).                                            *)
(***************************************************************************)
EXTENDS Integers, Sequences, FiniteSets, TLC

\* ---- bounds of the model
MaxLen == 2          \* longest payload handed to send()
MaxOut == 3          \* cap of m_totalBytesOut
MaxIn == 1           \* cap of m_totalBytesIn
MaxRecv == 1         \* most bytes one receive step reads

\* ---- program constants
Closed == -1         \* m_socket( -1 ): the "not open" sentinel
Free == 0            \* a mutex nobody holds

Threads == {1, 2}    \* the threads using the connection
Fds == {3}           \* descriptors the connector hands in
Payload(n) == [i \in 1..n |-> i]
Payloads == {Payload(n) : n \in 0..MaxLen}

VARIABLES
  \* the object's members
  m_socket, m_state, m_cancel, m_totalBytesIn, m_totalBytesOut,
  m_sendMutex, m_recvMutex, m_handler,
  \* the operating system: descriptors that are open sockets
  openFds,
  \* and the polling contexts (epoll descriptors) open, by creating thread
  epolls,
  \* each thread: position, arguments and locals, last returned value
  pc, data, num, sent, err, totalIn, inHandler, ret,
  \* history of the call a thread is in
  handed,   \* bytes the write calls of this send() accepted, in order
  out0,     \* m_totalBytesOut when this send() acquired m_sendMutex
  notes,    \* handleDisconnect() notifications this send() issued, by tag
  reads,    \* whether this receive() started a receive step
  late,     \* receive steps this receive() started with m_cancel set,
            \* since m_cancel was last cleared
  lastWriter, \* thread of the latest write call of a send() still in progress
  \* the object's lifetime
  m_buf,    \* the receive buffer: "allocated" (line 77) or "freed" (line 83)
  dtor      \* the thread running the destructor, if any

conn == <<m_socket, m_state, m_cancel, m_totalBytesIn, m_totalBytesOut, m_handler>>
locks == <<m_sendMutex, m_recvMutex>>
locals == <<data, num, sent, err, totalIn, inHandler>>
hist == <<handed, out0, notes, reads, late, lastWriter>>
os == <<openFds, epolls>>
life == <<m_buf, dtor>>
vars == <<conn, locks, os, pc, ret, locals, hist, life>>

SendPcs == {"s_lock", "s_check", "s_rej", "s_loop", "s_count", "s_unlock",
            "s_notify", "h_disc", "s_ret"}
SendCS == {"s_check", "s_rej", "s_loop", "s_count", "s_unlock"}
CleanupPcs == {"c_try_send", "c_try_recv", "c_close", "c_sentinel", "c_state",
               "c_cancel", "c_in", "c_out", "c_unlock_recv", "c_unlock_send"}
CleanupCS == {"c_close", "c_sentinel", "c_state", "c_cancel", "c_in", "c_out",
              "c_unlock_recv"}
ReceivePcs == {"r_check", "r_test", "rv_lock", "rv_read"}
DisconnectPcs == {"d_lock", "d_set", "d_unlock"}
PollPcs == {"da_check", "da_create", "da_ctl", "da_wait"}
StatPcs == {"gs_in", "gs_out"}

Init ==
  /\ m_socket = Closed
  /\ m_state = "Disconnected"
  /\ m_cancel = TRUE
  /\ m_totalBytesIn = 0
  /\ m_totalBytesOut = 0
  /\ m_sendMutex = Free
  /\ m_recvMutex = Free
  /\ m_handler \in BOOLEAN
  /\ openFds = {}
  /\ epolls = {}
  /\ pc = [t \in Threads |-> "idle"]
  /\ data = [t \in Threads |-> <<>>]
  /\ num = [t \in Threads |-> 0]
  /\ sent = [t \in Threads |-> 0]
  /\ err = [t \in Threads |-> "ConnNoError"]
  /\ totalIn = [t \in Threads |-> 0]
  /\ inHandler = [t \in Threads |-> FALSE]
  /\ ret = [t \in Threads |-> <<"none", "none">>]
  /\ handed = [t \in Threads |-> <<>>]
  /\ out0 = [t \in Threads |-> 0]
  /\ notes = [t \in Threads |-> <<>>]
  /\ reads = [t \in Threads |-> FALSE]
  /\ late = [t \in Threads |-> 0]
  /\ lastWriter = Free
  /\ m_buf = "allocated"
  /\ dtor = Free

\* ---- calls and returns

\* A thread enters a member function at position p.
Enter(t, p) ==
  /\ pc[t] = "idle"
  /\ pc' = [pc EXCEPT ![t] = p]
  /\ ret' = [ret EXCEPT ![t] = <<"none", "none">>]

\* The member function the thread is in returns v.  A cleanup() that the
\* handler called from handleDisconnect() returns into send(), line 167.
Return(t, f, v) ==
  /\ pc' = [pc EXCEPT ![t] = "idle"]
  /\ ret' = [ret EXCEPT ![t] = <<f, v>>]
  /\ data' = [data EXCEPT ![t] = <<>>]
  /\ num' = [num EXCEPT ![t] = 0]
  /\ sent' = [sent EXCEPT ![t] = 0]
  /\ err' = [err EXCEPT ![t] = "ConnNoError"]
  /\ totalIn' = [totalIn EXCEPT ![t] = 0]
  /\ inHandler' = [inHandler EXCEPT ![t] = FALSE]
  /\ handed' = [handed EXCEPT ![t] = <<>>]
  /\ out0' = [out0 EXCEPT ![t] = 0]
  /\ notes' = [notes EXCEPT ![t] = <<>>]
  /\ reads' = [reads EXCEPT ![t] = FALSE]
  /\ late' = [late EXCEPT ![t] = 0]
  /\ lastWriter' = IF lastWriter = t THEN Free ELSE lastWriter

Goto(t, p) == pc' = [pc EXCEPT ![t] = p]

\* Bytes that sends in progress will still add to m_totalBytesOut.
RECURSIVE SumLen(_)
SumLen(S) ==
  IF S = {} THEN 0
  ELSE LET t == CHOOSE x \in S : TRUE IN Len(data[t]) + SumLen(S \ {t})
PendingOut == SumLen({t \in Threads : pc[t] \in {"s_lock", "s_check", "s_loop", "s_count"}})

\* ---- the connector (ConnectionTCPClient::connect and DNS::connect)

\* The external connector opens a socket and hands it in: socket valid,
\* state Connected, cancellation flag cleared.
Connect ==
  /\ m_socket = Closed
  /\ m_state = "Disconnected"
  /\ m_sendMutex = Free
  /\ m_recvMutex = Free
  /\ \E fd \in Fds \ openFds :
       /\ openFds' = openFds \cup {fd}
       /\ m_socket' = fd
  /\ m_state' = "Connected"
  /\ m_cancel' = FALSE
  /\ late' = [t \in Threads |-> 0]
  /\ UNCHANGED <<m_totalBytesIn, m_totalBytesOut, m_handler, locks, epolls, pc, ret, locals,
                 handed, out0, notes, reads, lastWriter, life>>

\* ---- send(), lines 135-171

CallSend(t) ==
  \E d \in Payloads :
    /\ m_totalBytesOut + PendingOut + Len(d) <= MaxOut
    /\ Enter(t, "s_lock")
    /\ data' = [data EXCEPT ![t] = d]
    /\ UNCHANGED <<conn, locks, os, num, sent, err, totalIn, inHandler, hist, life>>

\* (variant: the lock is taken without waiting for its holder)
send_lock_nowait(t) ==
  /\ pc[t] = "s_lock"
  /\ m_sendMutex' = t
  /\ out0' = [out0 EXCEPT ![t] = m_totalBytesOut]
  /\ Goto(t, "s_check")
  /\ UNCHANGED <<conn, m_recvMutex, os, ret, locals, handed, notes, reads, late, lastWriter, life>>

\* line 137: m_sendMutex.lock()
send_lock(t) ==
  /\ pc[t] = "s_lock"
  /\ m_sendMutex = Free
  /\ m_sendMutex' = t
  /\ out0' = [out0 EXCEPT ![t] = m_totalBytesOut]
  /\ Goto(t, "s_check")
  /\ UNCHANGED <<conn, m_recvMutex, os, ret, locals, handed, notes, reads, late, lastWriter, life>>

\* (variant: the socket is not looked at)
send_rejects_empty_only(d, sock) == Len(d) = 0

\* line 139: if( data.empty() || ( m_socket < 0 ) )
send_rejects(d, sock) == Len(d) = 0 \/ sock < 0

send_check(t) ==
  /\ pc[t] = "s_check"
  /\ IF send_rejects(data[t], m_socket)
       THEN /\ Goto(t, "s_rej")
            /\ UNCHANGED <<num, sent>>
       ELSE /\ Goto(t, "s_loop")
            /\ sent' = [sent EXCEPT ![t] = 0]
            /\ num' = [num EXCEPT ![t] = 0]
  /\ UNCHANGED <<conn, locks, os, ret, data, err, totalIn, inHandler, hist, life>>

\* lines 141-142: unlock, return false
send_reject(t) ==
  /\ pc[t] = "s_rej"
  /\ m_sendMutex' = Free
  /\ Return(t, "send", "false")
  /\ UNCHANGED <<conn, m_recvMutex, os, life>>

\* (variant: every call is given the payload from its first byte)
write_buffer_restart(d, n) == d

\* The bytes one ::send() call is given: data.c_str()+num, len - num.
write_buffer(d, n) == SubSeq(d, n + 1, Len(d))

\* What ::send() may report for a buffer of k bytes: -1, or a count 0..k.
WriteResults(k) == {-1} \cup (0..k)

\* lines 146-149: one pass of the for loop.  The loop is left when
\* sent = -1 or num >= len; otherwise ::send() is called, and then num += sent.
send_loop(t) ==
  /\ pc[t] = "s_loop"
  /\ IF sent[t] # -1 /\ num[t] < Len(data[t])
       THEN \E r \in WriteResults(Len(write_buffer(data[t], num[t]))) :
              /\ sent' = [sent EXCEPT ![t] = r]
              \* after sent = -1 the condition short-circuits and num is not read again
              /\ num' = [num EXCEPT ![t] = IF r = -1 THEN @ ELSE @ + r]
              /\ handed' = [handed EXCEPT ![t] =
                   IF r = -1 THEN @ ELSE @ \o SubSeq(write_buffer(data[t], num[t]), 1, r)]
              /\ lastWriter' = t
              /\ UNCHANGED pc
       ELSE /\ Goto(t, "s_count")
            /\ UNCHANGED <<sent, num, handed, lastWriter>>
  /\ UNCHANGED <<conn, locks, os, ret, data, err, totalIn, inHandler,
                 out0, notes, reads, late, life>>

\* (variant: only the bytes written are counted)
counted_written(d, n) == n

\* line 151: m_totalBytesOut += data.length()
counted(d, n) == Len(d)

\* (variant: = in place of +=)
send_count_assign(t) ==
  /\ pc[t] = "s_count"
  /\ m_totalBytesOut' = Len(data[t])
  /\ Goto(t, "s_unlock")
  /\ UNCHANGED <<m_socket, m_state, m_cancel, m_totalBytesIn, m_handler, locks,
                 os, ret, locals, hist, life>>

\* line 151, the assignment
send_count(t) ==
  /\ pc[t] = "s_count"
  /\ m_totalBytesOut' = m_totalBytesOut + counted(data[t], num[t])
  /\ Goto(t, "s_unlock")
  /\ UNCHANGED <<m_socket, m_state, m_cancel, m_totalBytesIn, m_handler, locks,
                 os, ret, locals, hist, life>>

\* (variant: a failed send keeps the lock while it notifies)
send_unlock_kept(t) ==
  /\ pc[t] = "s_unlock"
  /\ IF sent[t] = -1
       THEN /\ Goto(t, "s_notify")
            /\ UNCHANGED <<m_sendMutex, ret, locals, hist>>
       ELSE /\ m_sendMutex' = Free
            /\ Return(t, "send", "true")
  /\ UNCHANGED <<conn, m_recvMutex, os, life>>

\* lines 153-155 and 170: unlock; a send that did not fail returns true
send_unlock(t) ==
  /\ pc[t] = "s_unlock"
  /\ m_sendMutex' = Free
  /\ IF sent[t] = -1
       THEN /\ Goto(t, "s_notify")
            /\ UNCHANGED <<ret, locals, hist>>
       ELSE Return(t, "send", "true")
  /\ UNCHANGED <<conn, m_recvMutex, os, life>>

\* lines 155-168: the failure is logged; if( m_handler ) handleDisconnect( this, ConnIoError )
send_notify(t) ==
  /\ pc[t] = "s_notify"
  /\ IF m_handler
       THEN /\ notes' = [notes EXCEPT ![t] = Append(@, "ConnIoError")]
            /\ Goto(t, "h_disc")
       ELSE /\ Goto(t, "s_ret")
            /\ UNCHANGED notes
  /\ UNCHANGED <<conn, locks, os, ret, locals, handed, out0, reads, late, lastWriter, life>>

\* The handler's handleDisconnect(): it returns, or it calls cleanup() first.
handler_return(t) ==
  /\ pc[t] = "h_disc"
  /\ Goto(t, "s_ret")
  /\ UNCHANGED <<conn, locks, os, ret, locals, hist, life>>

handler_cleanup(t) ==
  /\ pc[t] = "h_disc"
  /\ Goto(t, "c_try_send")
  /\ inHandler' = [inHandler EXCEPT ![t] = TRUE]
  /\ UNCHANGED <<conn, locks, os, ret, data, num, sent, err, totalIn, hist, life>>

\* line 170: return sent != -1, on the failure path
send_return(t) ==
  /\ pc[t] = "s_ret"
  /\ Return(t, "send", "false")
  /\ UNCHANGED <<conn, locks, os, life>>

\* ---- cleanup(), lines 179-203

CallCleanup(t) ==
  /\ Enter(t, "c_try_send")
  /\ UNCHANGED <<conn, locks, os, locals, hist, life>>

\* cleanup() returns: to its caller, into the handler that called it, or
\* into the destructor (line 83).
cleanup_return(t) ==
  IF inHandler[t]
    THEN /\ Goto(t, "s_ret")
         /\ inHandler' = [inHandler EXCEPT ![t] = FALSE]
         /\ UNCHANGED <<ret, data, num, sent, err, totalIn, hist>>
    ELSE IF dtor = t
      THEN /\ Goto(t, "x_free")
           /\ UNCHANGED <<ret, locals, hist>>
      ELSE Return(t, "cleanup", "void")

\* (variant: lock() in place of trylock())
cleanup_lock_send(t) ==
  /\ pc[t] = "c_try_send"
  /\ m_sendMutex = Free
  /\ m_sendMutex' = t
  /\ Goto(t, "c_try_recv")
  /\ UNCHANGED <<conn, m_recvMutex, os, ret, locals, hist, life>>

\* (variant: the result of the first trylock() is not looked at)
cleanup_try_send_ignored(t) ==
  /\ pc[t] = "c_try_send"
  /\ m_sendMutex' = IF m_sendMutex = Free THEN t ELSE m_sendMutex
  /\ Goto(t, "c_try_recv")
  /\ UNCHANGED <<conn, m_recvMutex, os, ret, locals, hist, life>>

\* lines 181-182: if( !m_sendMutex.trylock() ) return
cleanup_try_send(t) ==
  /\ pc[t] = "c_try_send"
  /\ IF m_sendMutex = Free
       THEN /\ m_sendMutex' = t
            /\ Goto(t, "c_try_recv")
            /\ UNCHANGED <<ret, locals, hist>>
       ELSE /\ UNCHANGED m_sendMutex
            /\ cleanup_return(t)
  /\ UNCHANGED <<conn, m_recvMutex, os, life>>

\* (variant: the result of the second trylock() is not looked at)
cleanup_try_recv_ignored(t) ==
  /\ pc[t] = "c_try_recv"
  /\ m_recvMutex' = IF m_recvMutex = Free THEN t ELSE m_recvMutex
  /\ Goto(t, "c_close")
  /\ UNCHANGED <<conn, m_sendMutex, os, ret, locals, hist, life>>

\* (variant: the abort path returns without m_sendMutex.unlock())
cleanup_try_recv_keeps_send(t) ==
  /\ pc[t] = "c_try_recv"
  /\ IF m_recvMutex = Free
       THEN /\ m_recvMutex' = t
            /\ Goto(t, "c_close")
            /\ UNCHANGED <<ret, locals, hist>>
       ELSE /\ UNCHANGED m_recvMutex
            /\ cleanup_return(t)
  /\ UNCHANGED <<conn, m_sendMutex, os, life>>

\* lines 184-188: if( !m_recvMutex.trylock() ) { m_sendMutex.unlock(); return; }
cleanup_try_recv(t) ==
  /\ pc[t] = "c_try_recv"
  /\ IF m_recvMutex = Free
       THEN /\ m_recvMutex' = t
            /\ Goto(t, "c_close")
            /\ UNCHANGED <<m_sendMutex, ret, locals, hist>>
       ELSE /\ m_sendMutex' = Free
            /\ UNCHANGED m_recvMutex
            /\ cleanup_return(t)
  /\ UNCHANGED <<conn, os, life>>

\* lines 190-192: if( m_socket >= 0 ) DNS::closeSocket( m_socket, ... )
cleanup_close(t) ==
  /\ pc[t] = "c_close"
  /\ IF m_socket >= 0
       THEN /\ openFds' = openFds \ {m_socket}
            /\ Goto(t, "c_sentinel")
       ELSE /\ UNCHANGED openFds
            /\ Goto(t, "c_state")
  /\ UNCHANGED <<conn, locks, epolls, ret, locals, hist, life>>

\* (variant: the closed descriptor stays in m_socket)
cleanup_sentinel_skipped(t) ==
  /\ pc[t] = "c_sentinel"
  /\ Goto(t, "c_state")
  /\ UNCHANGED <<conn, locks, os, ret, locals, hist, life>>

\* line 193: m_socket = -1
cleanup_sentinel(t) ==
  /\ pc[t] = "c_sentinel"
  /\ m_socket' = Closed
  /\ Goto(t, "c_state")
  /\ UNCHANGED <<m_state, m_cancel, m_totalBytesIn, m_totalBytesOut, m_handler,
                 locks, os, ret, locals, hist, life>>

\* line 196: m_state = StateDisconnected
cleanup_state(t) ==
  /\ pc[t] = "c_state"
  /\ m_state' = "Disconnected"
  /\ Goto(t, "c_cancel")
  /\ UNCHANGED <<m_socket, m_cancel, m_totalBytesIn, m_totalBytesOut, m_handler,
                 locks, os, ret, locals, hist, life>>

\* line 197: m_cancel = true
cleanup_cancel(t) ==
  /\ pc[t] = "c_cancel"
  /\ m_cancel' = TRUE
  /\ Goto(t, "c_in")
  /\ UNCHANGED <<m_socket, m_state, m_totalBytesIn, m_totalBytesOut, m_handler,
                 locks, os, ret, locals, hist, life>>

\* line 198: m_totalBytesIn = 0
cleanup_in(t) ==
  /\ pc[t] = "c_in"
  /\ m_totalBytesIn' = 0
  /\ Goto(t, "c_out")
  /\ UNCHANGED <<m_socket, m_state, m_cancel, m_totalBytesOut, m_handler,
                 locks, os, ret, locals, hist, life>>

\* (variant: the outbound counter is not reset)
cleanup_out_skipped(t) ==
  /\ pc[t] = "c_out"
  /\ Goto(t, "c_unlock_recv")
  /\ UNCHANGED <<conn, locks, os, ret, locals, hist, life>>

\* line 199: m_totalBytesOut = 0
cleanup_out(t) ==
  /\ pc[t] = "c_out"
  /\ m_totalBytesOut' = 0
  /\ Goto(t, "c_unlock_recv")
  /\ UNCHANGED <<m_socket, m_state, m_cancel, m_totalBytesIn, m_handler,
                 locks, os, ret, locals, hist, life>>

\* line 201: m_recvMutex.unlock()
cleanup_unlock_recv(t) ==
  /\ pc[t] = "c_unlock_recv"
  /\ m_recvMutex' = Free
  /\ Goto(t, "c_unlock_send")
  /\ UNCHANGED <<conn, m_sendMutex, os, ret, locals, hist, life>>

\* lines 202-203: m_sendMutex.unlock(), return
cleanup_unlock_send(t) ==
  /\ pc[t] = "c_unlock_send"
  /\ m_sendMutex' = Free
  /\ cleanup_return(t)
  /\ UNCHANGED <<conn, m_recvMutex, os, life>>

\* ---- disconnect(), lines 87-91

CallDisconnect(t) ==
  /\ Enter(t, "d_lock")
  /\ UNCHANGED <<conn, locks, os, locals, hist, life>>

\* (variant: the guard is put on m_sendMutex)
disconnect_lock_send(t) ==
  /\ pc[t] = "d_lock"
  /\ m_sendMutex = Free
  /\ m_sendMutex' = t
  /\ Goto(t, "d_set")
  /\ UNCHANGED <<conn, m_recvMutex, os, ret, locals, hist, life>>

\* line 89: util::MutexGuard rm( m_recvMutex )
disconnect_lock(t) ==
  /\ pc[t] = "d_lock"
  /\ m_recvMutex = Free
  /\ m_recvMutex' = t
  /\ Goto(t, "d_set")
  /\ UNCHANGED <<conn, m_sendMutex, os, ret, locals, hist, life>>

\* line 90: m_cancel = true
disconnect_set(t) ==
  /\ pc[t] = "d_set"
  /\ m_cancel' = TRUE
  /\ Goto(t, "d_unlock")
  /\ UNCHANGED <<m_socket, m_state, m_totalBytesIn, m_totalBytesOut, m_handler,
                 locks, os, ret, locals, hist, life>>

\* line 91: the guard's destructor unlocks
disconnect_unlock(t) ==
  /\ pc[t] = "d_unlock"
  /\ m_recvMutex' = Free
  /\ Return(t, "disconnect", "void")
  /\ UNCHANGED <<conn, m_sendMutex, os, life>>

\* ---- receive(), lines 124-133

CallReceive(t) ==
  /\ Enter(t, "r_check")
  /\ UNCHANGED <<conn, locks, os, locals, hist, life>>

\* (variant: err is returned as it is)
receive_result_raw(e) == e

\* line 132: return err == ConnNoError ? ConnNotConnected : err
receive_result(e) == IF e = "ConnNoError" THEN "ConnNotConnected" ELSE e

\* lines 126-129: if( m_socket < 0 ) return ConnNotConnected; err = ConnNoError
receive_check(t) ==
  /\ pc[t] = "r_check"
  /\ IF m_socket < 0
       THEN Return(t, "receive", "ConnNotConnected")
       ELSE /\ Goto(t, "r_test")
            /\ err' = [err EXCEPT ![t] = "ConnNoError"]
            /\ UNCHANGED <<ret, data, num, sent, totalIn, inHandler, hist>>
  /\ UNCHANGED <<conn, locks, os, life>>

\* (variant: the flag is not looked at)
receive_cancelled_never(c) == FALSE

\* line 130, left operand: while( !m_cancel && ...
receive_cancelled(c) == c

\* lines 130-132: the loop is left when the last attempt did not report
\* ConnNoError or when m_cancel is set; otherwise recv( 1000000 ) is called.
receive_test(t) ==
  /\ pc[t] = "r_test"
  /\ IF err[t] # "ConnNoError" \/ receive_cancelled(m_cancel)
       THEN Return(t, "receive", receive_result(err[t]))
       ELSE /\ Goto(t, "rv_lock")
            /\ UNCHANGED <<ret, locals, hist>>
  /\ UNCHANGED <<conn, locks, os, life>>

\* The single-attempt receive step recv( timeout ) that line 130 calls.  It
\* holds m_recvMutex for the attempt.
recv_lock(t) ==
  /\ pc[t] = "rv_lock"
  /\ m_recvMutex = Free
  /\ m_recvMutex' = t
  /\ reads' = [reads EXCEPT ![t] = TRUE]
  /\ late' = [late EXCEPT ![t] = IF m_cancel /\ @ < 2 THEN @ + 1 ELSE @]
  /\ Goto(t, "rv_read")
  /\ UNCHANGED <<conn, m_sendMutex, os, ret, locals, handed, out0, notes, lastWriter, life>>

\* What one attempt may report: on an open socket no error (with 0..MaxRecv
\* bytes read), a clean close by the peer or an I/O error; with no socket
\* open, not connected.
RecvOutcomes ==
  IF m_socket < 0
    THEN {<<"ConnNotConnected", 0>>}
    ELSE {<<"ConnNoError", n>> : n \in {k \in 0..MaxRecv : m_totalBytesIn + k <= MaxIn}}
         \cup {<<"ConnStreamClosed", 0>>, <<"ConnIoError", 0>>}

\* The attempt ends: the bytes read are counted, the lock is released, and
\* line 130 assigns the outcome: err = recv( 1000000 ).
recv_read(t) ==
  /\ pc[t] = "rv_read"
  /\ m_recvMutex' = Free
  /\ \E o \in RecvOutcomes :
       /\ m_totalBytesIn' = m_totalBytesIn + o[2]
       /\ err' = [err EXCEPT ![t] = o[1]]
  /\ Goto(t, "r_test")
  /\ UNCHANGED <<m_socket, m_state, m_cancel, m_totalBytesOut, m_handler, m_sendMutex, os,
                 ret, data, num, sent, totalIn, inHandler, hist, life>>

\* ---- dataAvailable(), lines 93-122

CallDataAvailable(t) ==
  /\ Enter(t, "da_check")
  /\ UNCHANGED <<conn, locks, os, locals, hist, life>>

\* lines 95-96: if( m_socket < 0 ) return true
poll_check(t) ==
  /\ pc[t] = "da_check"
  /\ IF m_socket < 0
       THEN Return(t, "dataAvailable", "true")
       ELSE /\ Goto(t, "da_create")
            /\ UNCHANGED <<ret, locals, hist>>
  /\ UNCHANGED <<conn, locks, os, life>>

\* lines 98-103: epoll_create1(0); on -1 the error is logged, return false
poll_create(t) ==
  /\ pc[t] = "da_create"
  /\ \/ /\ epolls' = epolls \cup {t}
        /\ Goto(t, "da_ctl")
        /\ UNCHANGED <<ret, locals, hist>>
     \/ /\ UNCHANGED epolls
        /\ Return(t, "dataAvailable", "false")
  /\ UNCHANGED <<conn, locks, openFds, life>>

\* (variant: the failure path returns without close( epoll_fd ))
poll_ctl_leak(t) ==
  /\ pc[t] = "da_ctl"
  /\ \/ /\ m_socket \in openFds
        /\ Goto(t, "da_wait")
        /\ UNCHANGED <<ret, locals, hist>>
     \/ Return(t, "dataAvailable", "false")
  /\ UNCHANGED <<conn, locks, os, life>>

\* lines 105-114: epoll_ctl( epoll_fd, EPOLL_CTL_ADD, m_socket, &ev ); on -1
\* the error is logged, the context closed, return false.  The call fails on
\* a descriptor that is not open, and may fail on an open one.
poll_ctl(t) ==
  /\ pc[t] = "da_ctl"
  /\ \/ /\ m_socket \in openFds
        /\ Goto(t, "da_wait")
        /\ UNCHANGED <<epolls, ret, locals, hist>>
     \/ /\ epolls' = epolls \ {t}
        /\ Return(t, "dataAvailable", "false")
  /\ UNCHANGED <<conn, locks, openFds, life>>

\* lines 116-121: nfds = epoll_wait( ... ); close( epoll_fd ); return nfds > 0
poll_wait(t) ==
  /\ pc[t] = "da_wait"
  /\ epolls' = epolls \ {t}
  /\ \E nfds \in {-1, 0, 1} :
       Return(t, "dataAvailable", IF nfds > 0 THEN "true" ELSE "false")
  /\ UNCHANGED <<conn, locks, openFds, life>>

\* ---- getStatistics(), lines 173-177

CallGetStatistics(t) ==
  /\ Enter(t, "gs_in")
  /\ UNCHANGED <<conn, locks, os, locals, hist, life>>

\* line 175: totalIn = m_totalBytesIn
stat_in(t) ==
  /\ pc[t] = "gs_in"
  /\ totalIn' = [totalIn EXCEPT ![t] = m_totalBytesIn]
  /\ Goto(t, "gs_out")
  /\ UNCHANGED <<conn, locks, os, ret, data, num, sent, err, inHandler, hist, life>>

\* line 176: totalOut = m_totalBytesOut
stat_out(t) ==
  /\ pc[t] = "gs_out"
  /\ Return(t, "getStatistics", "void")
  /\ UNCHANGED <<conn, locks, os, life>>

\* ---- ~ConnectionTCPBase(), lines 80-85

\* line 82: the destructor calls cleanup()
CallDestructor(t) ==
  /\ m_buf = "allocated"
  /\ dtor = Free
  /\ dtor' = t
  /\ Enter(t, "c_try_send")
  /\ UNCHANGED <<conn, locks, os, locals, hist, m_buf>>

\* lines 83-84: free( m_buf ); m_buf = 0.  The object is gone.
destructor_free(t) ==
  /\ pc[t] = "x_free"
  /\ dtor = t
  /\ m_buf' = "freed"
  /\ dtor' = Free
  /\ Return(t, "destructor", "void")
  /\ UNCHANGED <<conn, locks, os>>

\* ---- the specification

Step(t) ==
  \/ CallSend(t) \/ send_lock(t) \/ send_check(t) \/ send_reject(t)
  \/ send_loop(t) \/ send_count(t) \/ send_unlock(t) \/ send_notify(t)
  \/ handler_return(t) \/ handler_cleanup(t) \/ send_return(t)
  \/ CallCleanup(t) \/ cleanup_try_send(t) \/ cleanup_try_recv(t)
  \/ cleanup_close(t) \/ cleanup_sentinel(t) \/ cleanup_state(t)
  \/ cleanup_cancel(t) \/ cleanup_in(t) \/ cleanup_out(t)
  \/ cleanup_unlock_recv(t) \/ cleanup_unlock_send(t)
  \/ CallDisconnect(t) \/ disconnect_lock(t) \/ disconnect_set(t)
  \/ disconnect_unlock(t)
  \/ CallReceive(t) \/ receive_check(t) \/ receive_test(t)
  \/ recv_lock(t) \/ recv_read(t)
  \/ CallDataAvailable(t) \/ poll_check(t) \/ poll_create(t)
  \/ poll_ctl(t) \/ poll_wait(t)
  \/ CallGetStatistics(t) \/ stat_in(t) \/ stat_out(t)

Next == Connect \/ \E t \in Threads : Step(t)

Spec == Init /\ [][Next]_vars

\* The connection's whole life: the member functions are called until some
\* thread destroys the object, whatever the other threads are doing then.
Destroy(t) == CallDestructor(t) \/ destructor_free(t)

LifeNext ==
  \/ m_buf = "allocated" /\ Next
  \/ \E t \in Threads : Destroy(t)

LifeSpec == Init /\ [][LifeNext]_vars

\* ---- properties

\* Thread t takes a step that moves it to another position.
Moved(t) == pc'[t] # pc[t]

\* Thread t is inside cleanup() and this step returns from it.
CleanupReturns(t) == pc[t] \in CleanupPcs /\ pc'[t] \notin CleanupPcs

\* C1: outbound writes are mutually exclusive.  At most one thread is between
\* send()'s lock() and unlock() of m_sendMutex, and a write call that is not
\* the first one of its payload directly follows a write call of the same
\* send(): no write call of another payload came in between.
C1_SendExclusive ==
  /\ [](\A t, u \in Threads :
          (t # u /\ pc[t] \in SendCS) => pc[u] \notin SendCS)
  /\ [][\A t \in Threads :
          (pc[t] = "s_loop" /\ num[t] > 0 /\ <<sent[t], handed[t]>>' # <<sent[t], handed[t]>>)
             => lastWriter = t]_vars

C1_Witness ==
  \E t, u \in Threads :
    /\ t # u
    /\ pc[t] = "s_loop" /\ num[t] > 0 /\ num[t] < Len(data[t])
    /\ pc[u] = "s_lock" /\ Len(data[u]) > 0

\* C2: cleanup() is all-or-nothing.  A step of cleanup() taken while the
\* thread does not hold both mutexes changes none of socket, state,
\* cancelRequested, bytesIn, bytesOut (nor closes a descriptor); when
\* cleanup() returns the thread holds neither mutex; and a cleanup() that
\* did not abort at one of its two trylock() calls returns with the whole
\* teardown done: socket closed and set to the sentinel, state Disconnected.
C2_CleanupAllOrNothing ==
  [][\A t \in Threads :
       (pc[t] \in CleanupPcs /\ Moved(t)) =>
          /\ ~(m_sendMutex = t /\ m_recvMutex = t) =>
                UNCHANGED <<m_socket, m_state, m_cancel, m_totalBytesIn,
                            m_totalBytesOut, openFds>>
          /\ CleanupReturns(t) =>
                /\ m_sendMutex' # t
                /\ m_recvMutex' # t
                /\ pc[t] \notin {"c_try_send", "c_try_recv"} =>
                      /\ m_socket' = Closed
                      /\ openFds' = {}
                      /\ m_state' = "Disconnected"
                      /\ m_cancel'
                      /\ m_totalBytesIn' = 0
                      /\ m_totalBytesOut' = 0]_vars

C2_Witness ==
  \E t \in Threads :
    /\ pc[t] = "c_try_recv"
    /\ m_sendMutex = t
    /\ m_recvMutex \notin {Free, t}
    /\ m_socket # Closed
    /\ m_totalBytesOut > 0

\* C3, as stated: whenever a cleanup() call returns, bytesIn = 0,
\* bytesOut = 0 and state = Disconnected.
C3_AnyCleanupResets ==
  [][\A t \in Threads :
       CleanupReturns(t) =>
          /\ m_totalBytesIn' = 0
          /\ m_totalBytesOut' = 0
          /\ m_state' = "Disconnected"]_vars

\* C3, amended: whenever a cleanup() call that acquired both mutexes
\* returns, bytesIn = 0, bytesOut = 0 and state = Disconnected.
C3_FullCleanupResets ==
  [][\A t \in Threads :
       (CleanupReturns(t) /\ pc[t] \notin {"c_try_send", "c_try_recv"}) =>
          /\ m_totalBytesIn' = 0
          /\ m_totalBytesOut' = 0
          /\ m_state' = "Disconnected"]_vars

C3_Witness ==
  \E t \in Threads :
    /\ pc[t] = "c_unlock_send"
    /\ m_totalBytesIn = 0 /\ m_totalBytesOut = 0 /\ m_state = "Disconnected"
    /\ \E u \in Threads : ret[u] = <<"send", "true">>

\* The thread holding the mutex that t waits for (Free when t does not wait).
Awaited(t) ==
  IF pc[t] = "s_lock" THEN m_sendMutex
  ELSE IF pc[t] \in {"d_lock", "rv_lock"} THEN m_recvMutex
  ELSE Free

\* C4: the lock discipline is deadlock-free.  A thread inside cleanup() can
\* always take its next step (cleanup() never waits), and a thread inside
\* any call that cannot take a step waits for a mutex held by another
\* thread, which can take a step (no lock holder waits for a lock).
C4_NoDeadlock ==
  \A t \in Threads :
    /\ pc[t] \in CleanupPcs => ENABLED Step(t)
    /\ (pc[t] # "idle" /\ ~ENABLED Step(t)) =>
          /\ Awaited(t) \in Threads \ {t}
          /\ ENABLED Step(Awaited(t))

C4_Witness ==
  \E t, u \in Threads :
    /\ t # u
    /\ pc[t] = "rv_lock" /\ m_recvMutex = u
    /\ pc[u] = "c_close" /\ m_sendMutex = u

\* C5: a rejected send has no side effects.  A send() whose payload is empty
\* or that finds no socket open goes from its check straight to the return
\* of false: no write call, bytesIn and bytesOut unchanged, no notification,
\* and m_sendMutex released by the time it returns.
C5_RejectedSendNoEffect ==
  [][\A t \in Threads :
       /\ (pc[t] = "s_check" /\ (Len(data[t]) = 0 \/ m_socket = Closed) /\ Moved(t)) =>
             /\ pc'[t] = "s_rej"
             /\ UNCHANGED <<m_totalBytesIn, m_totalBytesOut, handed, notes, lastWriter>>
       /\ (pc[t] = "s_rej" /\ Moved(t)) =>
             /\ ret'[t] = <<"send", "false">>
             /\ pc'[t] = "idle"
             /\ m_sendMutex' # t
             /\ handed[t] = <<>> /\ notes[t] = <<>>
             /\ UNCHANGED <<m_totalBytesIn, m_totalBytesOut, lastWriter>>]_vars

C5_Witness ==
  \E t \in Threads :
    /\ pc[t] = "s_rej"
    /\ Len(data[t]) > 0
    /\ m_socket = Closed

\* C6: every send(d) that is not rejected increases bytesOut by exactly
\* len(d): once the counter is updated (and until the lock is released) it is
\* its value at the acquisition of the lock plus len(d), after a success and
\* after a failure alike.
C6_CountsFullLength ==
  \A t \in Threads :
    pc[t] = "s_unlock" => m_totalBytesOut = out0[t] + Len(data[t])

C6_Witness ==
  \E t \in Threads :
    /\ pc[t] = "s_unlock"
    /\ sent[t] = -1
    /\ Len(handed[t]) > 0 /\ Len(handed[t]) < Len(data[t])
    /\ out0[t] > 0

IsPrefix(p, d) == Len(p) <= Len(d) /\ p = SubSeq(d, 1, Len(p))

\* C7: partial writes are handled correctly.  The bytes the write calls of a
\* send(d) have accepted are always a prefix of d, every write call starts at
\* the first byte not yet accepted, and when the loop is left without a
\* failure they are exactly d.
C7_PartialWrites ==
  \A t \in Threads :
    /\ IsPrefix(handed[t], data[t])
    /\ pc[t] = "s_loop" /\ sent[t] # -1 => num[t] = Len(handed[t])
    /\ (pc[t] \in {"s_count", "s_unlock"} /\ sent[t] # -1) => handed[t] = data[t]

C7_Witness ==
  \E t \in Threads :
    /\ pc[t] = "s_unlock"
    /\ sent[t] # -1
    /\ Len(data[t]) = MaxLen
    /\ sent[t] < Len(data[t])
    /\ handed[t] = data[t]

\* C8: a fatal write failure is reported on both channels.  The failed send
\* returns false after exactly one ConnIoError notification when a handler is
\* set (none when no handler is set); the notifying thread holds no mutex,
\* also at the first trylock() of a cleanup() called from the notification;
\* a send that returns true has issued no notification.
C8_FailureDualReported ==
  /\ [](\A t \in Threads :
          /\ (pc[t] \in {"s_notify", "h_disc"} \/ (inHandler[t] /\ pc[t] = "c_try_send")) =>
                (m_sendMutex # t /\ m_recvMutex # t)
          /\ pc[t] = "s_ret" =>
                notes[t] = IF m_handler THEN <<"ConnIoError">> ELSE <<>>)
  /\ [][\A t \in Threads :
          /\ (pc[t] = "s_unlock" /\ sent[t] = -1 /\ Moved(t)) => pc'[t] = "s_notify"
          /\ (pc[t] = "s_ret" /\ Moved(t)) => ret'[t] = <<"send", "false">>
          /\ (pc[t] # "idle" /\ ret'[t] = <<"send", "true">>) =>
                (sent[t] # -1 /\ notes[t] = <<>>)]_vars

C8_Witness ==
  \E t \in Threads :
    /\ inHandler[t]
    /\ pc[t] = "c_try_recv"
    /\ notes[t] = <<"ConnIoError">>

\* C9: receive() never returns ConnNoError.  With no socket open it returns
\* ConnNotConnected at once, taking no lock and reading nothing; it returns
\* the outcome of the receive step when that is not ConnNoError; and it
\* returns ConnNotConnected when it finds m_cancel set, without another step.
C9_ReceiveOutcome ==
  /\ [](\A t \in Threads : ret[t][1] = "receive" => ret[t][2] # "ConnNoError")
  /\ [][\A t \in Threads :
          /\ (pc[t] = "r_check" /\ m_socket = Closed /\ Moved(t)) =>
                /\ ret'[t] = <<"receive", "ConnNotConnected">>
                /\ UNCHANGED <<m_recvMutex, m_totalBytesIn>>
          /\ (pc[t] = "r_test" /\ err[t] # "ConnNoError" /\ Moved(t)) =>
                ret'[t] = <<"receive", err[t]>>
          /\ (pc[t] = "r_test" /\ err[t] = "ConnNoError" /\ m_cancel /\ Moved(t)) =>
                /\ ret'[t] = <<"receive", "ConnNotConnected">>
                /\ UNCHANGED <<m_recvMutex, m_totalBytesIn>>]_vars

C9_Witness ==
  \E t \in Threads :
    /\ pc[t] = "r_test"
    /\ reads[t]
    /\ err[t] = "ConnNoError"
    /\ m_cancel
    /\ m_socket # Closed

\* ---- scheduling: a thread inside a call goes on running, and a receive
\* step that keeps finding m_recvMutex released gets it (every
\* single-attempt step returns)
Proceed(t) == pc[t] # "idle" /\ Step(t)

FairSpec ==
  /\ Spec
  /\ \A t \in Threads : WF_vars(Proceed(t)) /\ SF_vars(recv_lock(t))

\* C10: cooperative cancellation is bounded.  While m_cancel stays set, a
\* running receive() starts at most one further receive step, and it returns
\* (never ConnNoError) unless m_cancel is cleared first.
C10_CancelBounded ==
  /\ [](\A t \in Threads : late[t] <= 1)
  /\ [][\A t \in Threads :
          (pc[t] \in ReceivePcs /\ pc'[t] = "idle") =>
             (ret'[t][1] = "receive" /\ ret'[t][2] # "ConnNoError")]_vars
  /\ \A t \in Threads :
       (pc[t] \in ReceivePcs /\ m_cancel) ~> (pc[t] \notin ReceivePcs \/ ~m_cancel)

C10_Witness ==
  \E t \in Threads :
    /\ pc[t] = "rv_read"
    /\ late[t] = 1
    /\ m_cancel
    /\ m_socket # Closed

\* ---- disconnect() and receive steps

\* C11: disconnect() does not wait for in-flight I/O: no disconnect() is
\* ever waiting at its lock (line 89) for m_recvMutex while a receive()
\* that is inside its receive step holds it.
C11_DisconnectNeverWaits ==
  \A t \in Threads : \A u \in Threads :
    ~(pc[t] = "d_lock" /\ pc[u] = "rv_read" /\ m_recvMutex = u)

\* ---- destruction

\* C12: once the destructor has run, the socket is closed (m_socket is the
\* sentinel) and the state is Disconnected, whoever held a lock meanwhile.
C12_DestructorTearsDown ==
  m_buf = "freed" => m_socket = Closed /\ m_state = "Disconnected"

\* ---- state and socket

\* C13 (as claimed): in every reachable state, state = Connected implies
\* that the socket handle is valid (not the sentinel).
C13_ConnectedImpliesValid == m_state = "Connected" => m_socket # Closed

\* C13 (amended): in every reachable state in which no cleanup() is between
\* its two trylocks' success and its unlocks, state = Connected implies that
\* m_socket is valid and open; and every transition of the state to
\* Disconnected happens with the socket already closed and m_socket already
\* the sentinel.
C13_ConnectedValidOutsideTeardown ==
  /\ []((\A t \in Threads : pc[t] \notin CleanupCS)
          => (m_state = "Connected" => m_socket # Closed /\ m_socket \in openFds))
  /\ [][m_state = "Connected" /\ m_state' = "Disconnected"
          => m_socket = Closed /\ openFds = {}]_vars

\* A cleanup() has closed the socket of a Connected connection and is about
\* to reset the state.
C13_Witness ==
  \E t \in Threads :
    /\ pc[t] = "c_state"
    /\ m_state = "Connected"
    /\ m_socket = Closed
    /\ openFds = {}

\* ---- full duplex

\* C14: send() never holds m_recvMutex, receive() and disconnect() never
\* hold m_sendMutex; a receive() or disconnect() that cannot take a step is
\* waiting for a lock that no thread inside send() holds, and a send() that
\* cannot take a step is waiting for a lock that no thread inside receive()
\* or disconnect() holds.
C14_FullDuplex ==
  \A t \in Threads :
    /\ pc[t] \in SendPcs => m_recvMutex # t
    /\ pc[t] \in ReceivePcs \cup DisconnectPcs => m_sendMutex # t
    /\ pc[t] \in ReceivePcs \cup DisconnectPcs /\ ~ENABLED Step(t)
         => /\ m_recvMutex \in Threads \ {t}
            /\ pc[m_recvMutex] \notin SendPcs
    /\ pc[t] \in SendPcs /\ ~ENABLED Step(t)
         => /\ m_sendMutex \in Threads \ {t}
            /\ pc[m_sendMutex] \notin ReceivePcs \cup DisconnectPcs

\* One thread is between two write calls of send() while another is inside
\* disconnect(), each holding its own lock.
C14_Witness ==
  \E t \in Threads : \E u \in Threads :
    /\ pc[t] = "s_loop" /\ num[t] > 0 /\ num[t] < Len(data[t])
    /\ m_sendMutex = t
    /\ pc[u] = "d_set"
    /\ m_recvMutex = u

\* C15: at most one thread is inside the loop of receive() (lines 130-131).
C15_OneReceiver ==
  Cardinality({t \in Threads : pc[t] \in {"r_test", "rv_lock", "rv_read"}}) <= 1

\* ---- polling contexts

\* C16: a polling context exists only while the dataAvailable() that created
\* it is still between epoll_create1() and close(), so none is left after
\* any return; and a dataAvailable() that finds no socket returns true and
\* creates none.
C16_NoPollLeak ==
  /\ [](\A t \in epolls : pc[t] \in {"da_ctl", "da_wait"})
  /\ [][\A t \in Threads :
          pc[t] = "da_check" /\ m_socket < 0 /\ Moved(t)
            => /\ ret'[t] = <<"dataAvailable", "true">>
               /\ epolls' = epolls]_vars

\* A dataAvailable() that had found the socket open has returned false with
\* the socket closed meanwhile, and no polling context is open.
C16_Witness ==
  \E t \in Threads :
    /\ pc[t] = "idle"
    /\ ret[t] = <<"dataAvailable", "false">>
    /\ m_socket = Closed
    /\ epolls = {}

\* ---- the socket under a send

\* C17: from the check of line 139 that found the socket open until send()
\* releases m_sendMutex, m_socket is an open descriptor, so every write call
\* is on an open socket; and the socket is closed, and m_socket set to the
\* sentinel, only by a cleanup() holding both mutexes.
C17_NoCloseUnderSend ==
  /\ [](\A t \in Threads :
          pc[t] \in {"s_loop", "s_count", "s_unlock"}
            => m_sendMutex = t /\ m_socket \in openFds)
  /\ [][(m_socket' # m_socket /\ m_socket' = Closed) \/ ~(openFds \subseteq openFds')
          => \E t \in Threads :
               /\ pc[t] \in CleanupPcs
               /\ m_sendMutex = t
               /\ m_recvMutex = t]_vars

\* A send() is between two write calls on the open socket while the other
\* thread's cleanup() is at its first trylock().
C17_Witness ==
  \E t \in Threads : \E u \in Threads :
    /\ pc[t] = "s_loop" /\ num[t] > 0 /\ num[t] < Len(data[t])
    /\ m_socket \in openFds
    /\ pc[u] = "c_try_send"

\* ---- the write loop

\* C18: the write loop stops as soon as a write call makes no progress:
\* after a ::send() that returned 0 with bytes left, send() issues no
\* further write call.
C18_StopsWithoutProgress ==
  [][\A t \in Threads :
       pc[t] = "s_loop" /\ sent[t] = 0 /\ num[t] > 0 /\ num[t] < Len(data[t])
         => (pc'[t] = "s_loop" => sent'[t] = sent[t] /\ num'[t] = num[t])]_vars

\* ---- the byte counters

\* C19: no step decreases m_totalBytesIn or m_totalBytesOut, except the
\* resets (lines 198-199) of a cleanup() that holds both mutexes, after
\* which both are 0.
C19_CountersMonotone ==
  /\ [][m_totalBytesIn' < m_totalBytesIn \/ m_totalBytesOut' < m_totalBytesOut
          => \E t \in Threads :
               /\ pc[t] \in {"c_in", "c_out"}
               /\ Moved(t)
               /\ m_sendMutex = t
               /\ m_recvMutex = t
               /\ m_totalBytesIn' \in {0, m_totalBytesIn}
               /\ m_totalBytesOut' \in {0, m_totalBytesOut}]_vars
  /\ [](\A t \in Threads :
          pc[t] = "c_unlock_recv" => m_totalBytesIn = 0 /\ m_totalBytesOut = 0)

\* A cleanup() holding both mutexes has reset the inbound counter and is
\* about to reset the outbound one, which has counted bytes.
C19_Witness ==
  \E t \in Threads :
    /\ pc[t] = "c_out"
    /\ m_sendMutex = t
    /\ m_recvMutex = t
    /\ m_totalBytesIn = 0
    /\ m_totalBytesOut > 0

\* ---- retried teardown

\* Scheduling for a caller that retries cleanup(): a thread inside a call
\* goes on running, and a thread waiting for a mutex that is released again
\* and again gets it.
RetrySpec ==
  /\ Spec
  /\ \A t \in Threads :
       /\ WF_vars(Proceed(t))
       /\ SF_vars(send_lock(t))
       /\ SF_vars(disconnect_lock(t))
       /\ SF_vars(recv_lock(t))

\* A cleanup() call is at its first trylock().
Retry == \E t \in Threads : pc[t] = "c_try_send"

\* A cleanup() call that acquired both mutexes has closed the socket and
\* reset the state.
TornDown ==
  \E t \in Threads :
    /\ pc[t] = "c_unlock_recv"
    /\ m_sendMutex = t
    /\ m_recvMutex = t
    /\ m_socket = Closed
    /\ m_state = "Disconnected"

\* No thread is inside a member function other than cleanup().
Quiet == \A t \in Threads : pc[t] \in {"idle"} \cup CleanupPcs

\* The threads call nothing but cleanup(), send() and disconnect().
SendersOnly ==
  \A t \in Threads : pc[t] \in {"idle"} \cup CleanupPcs \cup SendPcs \cup DisconnectPcs

\* C20 (as claimed): if cleanup() is called again and again while the other
\* threads keep issuing send() and disconnect() calls, each of which
\* releases its lock, then eventually one cleanup() acquires both mutexes
\* and tears down.
C20_RetryEventuallySucceeds == ([]SendersOnly /\ []<>Retry) => <>TornDown

\* C20 (amended): if cleanup() is called again and again and from some point
\* on no thread is inside any other member function, then a cleanup()
\* acquires both mutexes and tears down, again and again.
C20_RetrySucceedsWhenQuiet == (<>[]Quiet /\ []<>Retry) => []<>TornDown

\* A retried cleanup() holds m_sendMutex and is at its second trylock() with
\* m_recvMutex free and the other thread idle, on an open connection.
C20_Witness ==
  \E t \in Threads :
    /\ pc[t] = "c_try_recv"
    /\ ret[t] = <<"none", "none">>
    /\ m_sendMutex = t
    /\ m_recvMutex = Free
    /\ m_socket \in openFds
    /\ \A u \in Threads \ {t} : pc[u] = "idle" /\ ret[u] = <<"disconnect", "void">>

====
